---- MODULE Spec2Model ----
(***************************************************************************)
(* Model of sc-frontend/src/pages/ReportGenerationPage.tsx: the report     *)
(* page component (report kind, date window, fetched record sets, the      *)
(* fetch effect, rendering and PDF export) and the pure data shaping it    *)
(* does (date-range filter, monthly registration buckets, per-sender       *)
(* announcement buckets).                                                  *)
(*                                                                         *)
(* Encodings.                                                              *)
(*  - A JavaScript string that is used as an object key is a sequence of   *)
(*    UTF-16 code units, so that Array.prototype.sort() (code-unit order)  *)
(*    and Object.keys() (array-index keys first) are computed, not assumed.*)
(*  - An instant is a whole number of months counted from September 2024;  *)
(*    a Date is <<t>>, an Invalid Date (unparseable string) is <<>>.       *)
(*  - A nullable Date state (startDate, endDate) is <<t>> or Null = <<>>.  *)
(*  - A plain JavaScript object is the sequence of its own properties      *)
(*    [key, val] in creation order.                                        *)
(***************************************************************************)
EXTENDS Integers, Sequences, FiniteSets, TLC

VARIABLES
    reportType,     \* useState: "none" (null) | "users" | "announcements"
    startDate,      \* useState: Date | null
    endDate,        \* useState: Date | null
    users,          \* useState: User[]
    announcements,  \* useState: Announcement[]
    token,          \* localStorage "token" present?
    effectPending,  \* the [reportType] effect is scheduled and has not run yet
    inflight,       \* axios.get calls awaiting their response: [id, kind]
    nextId,         \* number of fetches issued so far
    alerts,         \* number of alert() dialogs raised so far
    view,           \* what the last render returned from renderReport()
    saved,          \* content of report.pdf: the document last given to doc.save
    downloads,      \* number of doc.save calls so far
    origin,         \* history: id of the fetch whose response each record set holds
    lastOk          \* history: per kind, the latest-issued fetch that has resolved

vars == <<reportType, startDate, endDate, users, announcements, token,
          effectPending, inflight, nextId, alerts, view, saved, downloads, origin,
          lastOk>>

----------------------------------------------------------------------------
(* Bounds *)

MaxT == 2          \* instants are 0..MaxT (months from September 2024)
MaxLen == 2        \* longest record sequence given to the aggregation
MaxFetches == 3    \* fetches issued in one run of the page
MaxDocs == 1       \* documents saved in one run of the page

----------------------------------------------------------------------------
(* Strings as code units *)

S_Empty == <<>>
S_Unknown == <<85, 110, 107, 110, 111, 119, 110>>          \* "Unknown"
S_Bob == <<66, 111, 98>>                                   \* "Bob"
S_Two == <<50>>                                            \* "2"
S_Proto == <<95, 95, 112, 114, 111, 116, 111, 95, 95>>     \* "__proto__"
S_NaN == <<78, 97, 78>>                                    \* "NaN"
S_Dash == <<45>>                                           \* "-"

\* String(n) for a natural number n.
RECURSIVE NumToStr(_)
NumToStr(n) ==
    IF n < 10 THEN <<48 + n>> ELSE NumToStr(n \div 10) \o <<48 + (n % 10)>>

IsDigits(s) == Len(s) >= 1 /\ \A i \in DOMAIN s : s[i] \in 48..57

RECURSIVE StrToNat(_)
StrToNat(s) ==
    IF s = <<>> THEN 0
    ELSE 10 * StrToNat(SubSeq(s, 1, Len(s) - 1)) + (s[Len(s)] - 48)

\* The comparison Array.prototype.sort() uses without a comparator:
\* UTF-16 code unit order, a proper prefix first.
RECURSIVE StrLess(_, _)
StrLess(a, b) ==
    IF a = <<>> THEN b # <<>>
    ELSE IF b = <<>> THEN FALSE
    ELSE IF a[1] # b[1] THEN a[1] < b[1]
    ELSE StrLess(Tail(a), Tail(b))

----------------------------------------------------------------------------
(* Plain objects: monthlyData = {} and senderData = {} *)

EmptyObject == <<>>

HasOwn(obj, k) == \E i \in DOMAIN obj : obj[i].key = k

OwnIndex(obj, k) == CHOOSE i \in DOMAIN obj : obj[i].key = k

GetOwn(obj, k) == obj[OwnIndex(obj, k)].val

\* obj[k] = v for a key that is not an accessor of Object.prototype.
PutOwn(obj, k, v) ==
    IF HasOwn(obj, k)
    THEN [obj EXCEPT ![OwnIndex(obj, k)].val = v]
    ELSE Append(obj, [key |-> k, val |-> v])

\* A canonical array index: "0", or digits without a leading zero
\* (up to nine digits here, all below 2^32 - 1).
IsArrayIndex(s) ==
    /\ IsDigits(s)
    /\ Len(s) <= 9
    /\ (Len(s) = 1 \/ s[1] # 48)

IndexLess(p, q) == StrToNat(p.key) < StrToNat(q.key)

\* OrdinaryOwnPropertyKeys: array-index keys in ascending numeric order,
\* then the other string keys in creation order.
OwnProperties(obj) ==
    SortSeq(SelectSeq(obj, LAMBDA p : IsArrayIndex(p.key)), IndexLess)
        \o SelectSeq(obj, LAMBDA p : ~IsArrayIndex(p.key))

ObjectKeys(obj) == [i \in DOMAIN obj |-> OwnProperties(obj)[i].key]

ObjectValues(obj) == [i \in DOMAIN obj |-> OwnProperties(obj)[i].val]

----------------------------------------------------------------------------
(* Dates *)

Null == <<>>
InvalidDate == <<>>
Malformed == <<>>       \* a created_at / sent_at string Date cannot parse

Instants == 0..MaxT
Dates == {<<t>> : t \in Instants}

\* new Date(str)
NewDate(str) == IF str = Malformed THEN InvalidDate ELSE str

\* a >= b and a <= b on Dates: the operands become numbers, and every
\* comparison with NaN (an Invalid Date) is false.
DateGE(a, b) == a # InvalidDate /\ b # InvalidDate /\ a[1] >= b[1]
DateLE(a, b) == a # InvalidDate /\ b # InvalidDate /\ a[1] <= b[1]

\* date.getFullYear() and date.getMonth() (0-11) of a valid Date.
GetFullYear(d) == 2024 + ((8 + d[1]) \div 12)
GetMonth(d) == (8 + d[1]) % 12

\* `${date.getFullYear()}-${date.getMonth() + 1}`; both are NaN for an
\* Invalid Date.
MonthKey(d) ==
    IF d = InvalidDate THEN S_NaN \o S_Dash \o S_NaN
    ELSE NumToStr(GetFullYear(d)) \o S_Dash \o NumToStr(GetMonth(d) + 1)

\* value ? new Date(value).toLocaleDateString() : "N/A", for the non-empty
\* strings of this model; the locale text of a valid date is written as the
\* numeral of its instant.
FormatDate(str) ==
    IF NewDate(str) = InvalidDate THEN "Invalid Date" ELSE ToString(str[1])

----------------------------------------------------------------------------
(* Records *)

Roles == {"student", "lecturer", "admin"}
Names == {S_Bob, S_Two, S_Proto, S_Empty}
Timestamps == Dates \cup {Malformed}

\* The fields of User and Announcement that the page reads for filtering
\* and bucketing.
UserRecords == [role : Roles, created_at : Timestamps]
AnnouncementRecords == [sender_name : Names, sent_at : Timestamps]

SeqsUpTo(S, n) == UNION {[1..k -> S] : k \in 0..n}

----------------------------------------------------------------------------
(* Range filter *)

\* InRange with the start bound exclusive.
InRangeAfterStart(str, sd, ed) ==
    /\ DateGE(NewDate(str), sd) /\ NewDate(str) # sd
    /\ DateLE(NewDate(str), ed)

\* Whether a record dated `str` passes the window [sd, ed] (both set).
InRange(str, sd, ed) ==
    DateGE(NewDate(str), sd) /\ DateLE(NewDate(str), ed)

filterUsersByDateRange(data, sd, ed) ==
    IF sd = Null \/ ed = Null THEN data
    ELSE SelectSeq(data, LAMBDA user : InRange(user.created_at, sd, ed))

filterAnnouncementsByDateRange(data, sd, ed) ==
    IF sd = Null \/ ed = Null THEN data
    ELSE SelectSeq(data, LAMBDA a : InRange(a.sent_at, sd, ed))

----------------------------------------------------------------------------
(* Registration trends *)

\* One iteration of filteredUsers.forEach.
RegistrationStep(monthlyData, user) ==
    LET monthKey == MonthKey(NewDate(user.created_at))
        md == IF ~HasOwn(monthlyData, monthKey)
              THEN PutOwn(monthlyData, monthKey, [students |-> 0, lecturers |-> 0])
              ELSE monthlyData
        cur == GetOwn(md, monthKey)
    IN  IF user.role = "student"
        THEN PutOwn(md, monthKey, [cur EXCEPT !.students = @ + 1])
        ELSE IF user.role = "lecturer"
        THEN PutOwn(md, monthKey, [cur EXCEPT !.lecturers = @ + 1])
        ELSE md

RECURSIVE RegistrationBuckets(_, _)
RegistrationBuckets(monthlyData, data) ==
    IF data = <<>> THEN monthlyData
    ELSE RegistrationBuckets(RegistrationStep(monthlyData, Head(data)), Tail(data))

\* Object.keys(monthlyData).sort()
SortedLabels(monthlyData) == SortSeq(ObjectKeys(monthlyData), StrLess)

getUserRegistrationData(us, sd, ed) ==
    LET filteredUsers == filterUsersByDateRange(us, sd, ed)
        monthlyData == RegistrationBuckets(EmptyObject, filteredUsers)
        labels == SortedLabels(monthlyData)
        studentData == [i \in DOMAIN labels |-> GetOwn(monthlyData, labels[i]).students]
        lecturerData == [i \in DOMAIN labels |-> GetOwn(monthlyData, labels[i]).lecturers]
    IN  [kind |-> "users",
         tableData |-> filteredUsers,
         labels |-> labels,
         datasets |-> <<studentData, lecturerData>>]

----------------------------------------------------------------------------
(* Announcement activity *)

\* announcement.sender_name || "Unknown"
SenderOf(a) == IF a.sender_name = S_Empty THEN S_Unknown ELSE a.sender_name

\* One iteration of filteredAnnouncements.forEach:
\*   senderData[sender] = (senderData[sender] || 0) + 1.
\* For sender "__proto__" the read yields Object.prototype, the sum is a
\* string, and the inherited __proto__ setter ignores a string: no own
\* property is created.  (The other names Object.prototype defines, such as
\* "constructor", are not among Names.)
ActivityStep(senderData, a) ==
    LET sender == SenderOf(a)
    IN  IF sender = S_Proto THEN senderData
        ELSE IF HasOwn(senderData, sender)
        THEN PutOwn(senderData, sender, GetOwn(senderData, sender) + 1)
        ELSE PutOwn(senderData, sender, 1)

RECURSIVE ActivityBuckets(_, _)
ActivityBuckets(senderData, data) ==
    IF data = <<>> THEN senderData
    ELSE ActivityBuckets(ActivityStep(senderData, Head(data)), Tail(data))

getAnnouncementActivityData(an, sd, ed) ==
    LET filteredAnnouncements == filterAnnouncementsByDateRange(an, sd, ed)
        senderData == ActivityBuckets(EmptyObject, filteredAnnouncements)
    IN  [kind |-> "announcements",
         tableData |-> filteredAnnouncements,
         labels |-> ObjectKeys(senderData),
         datasets |-> <<ObjectValues(senderData)>>]

----------------------------------------------------------------------------
(* Rendering and export *)

\* What {reportType && renderReport()} evaluates to when nothing is drawn.
NoView == [kind |-> "none", tableData |-> <<>>, labels |-> <<>>, datasets |-> <<>>]

renderReport(rt, sd, ed, us, an) ==
    IF rt = "users" THEN getUserRegistrationData(us, sd, ed)
    ELSE IF rt = "announcements" THEN getAnnouncementActivityData(an, sd, ed)
    ELSE NoView

\* startDate?.toLocaleDateString() || "N/A"
RangeText(d) == IF d = Null THEN "N/A" ELSE ToString(d[1])

\* The content downloadPDF gives to jsPDF before doc.save("report.pdf").
downloadPDF(rt, sd, ed, us, an) ==
    [reportLine |-> IF rt = "users" THEN "User Registration Trends"
                    ELSE "Announcement Activity",
     rangeLine |-> <<RangeText(sd), RangeText(ed)>>,
     body |-> IF rt = "users"
              THEN LET rows == getUserRegistrationData(us, sd, ed).tableData
                   IN  [i \in DOMAIN rows |->
                          <<rows[i].role, FormatDate(rows[i].created_at)>>]
              ELSE IF rt = "announcements"
              THEN LET rows == getAnnouncementActivityData(an, sd, ed).tableData
                   IN  [i \in DOMAIN rows |->
                          <<SenderOf(rows[i]), FormatDate(rows[i].sent_at)>>]
              ELSE <<>>]

\* report.pdf before any export.
NoDoc == [reportLine |-> "", rangeLine |-> <<"", "">>, body |-> <<>>]

\* The button drawn whatever the report kind.
DownloadAlwaysVisible == TRUE

\* {reportType && <button onClick={downloadPDF}>}
DownloadVisible == reportType # "none"

\* {reportType && <DatePicker ...>} for both pickers.
PickersVisible == reportType # "none"

\* minDate={startDate ?? undefined} on the end picker.
EndSelectable(d) == d = Null \/ startDate = Null \/ DateGE(d, startDate)

----------------------------------------------------------------------------
(* The page *)

Kinds == {"users", "announcements"}

\* The dates picked in the page runs: last month and this month.
PickerDates == {<<0>>, <<1>>}

\* Response bodies of GET /users and GET /announcements in the page runs.
UserResponses == {<<>>, <<[role |-> "student", created_at |-> <<0>>]>>}
AnnouncementResponses == {<<>>, <<[sender_name |-> S_Bob, sent_at |-> <<0>>]>>}

\* State after the first render of the component: the window is the last
\* month up to now, nothing is selected, nothing is fetched.
Init ==
    /\ reportType = "none"
    /\ startDate = <<0>>
    /\ endDate = <<1>>
    /\ users = <<>>
    /\ announcements = <<>>
    /\ token \in BOOLEAN
    /\ effectPending = FALSE
    /\ inflight = {}
    /\ nextId = 0
    /\ alerts = 0
    /\ view = NoView
    /\ saved = NoDoc
    /\ downloads = 0
    /\ origin = [k \in Kinds |-> 0]
    /\ lastOk = [k \in Kinds |-> 0]

\* onChange of the <select>: setReportType, the re-render, and the effect
\* on [reportType] scheduled.
SelectReportType(k) ==
    /\ ~effectPending
    /\ k # reportType
    /\ nextId < MaxFetches
    /\ reportType' = k
    /\ effectPending' = TRUE
    /\ view' = renderReport(k, startDate, endDate, users, announcements)
    /\ UNCHANGED <<startDate, endDate, users, announcements, token, inflight,
                   nextId, alerts, saved, downloads, origin, lastOk>>

\* The effect body: fetchData() up to its await. Without a token it alerts
\* and returns; otherwise the request for the selected kind goes out.
FetchData ==
    /\ effectPending
    /\ effectPending' = FALSE
    /\ nextId' = nextId + 1
    /\ IF ~token
       THEN /\ alerts' = alerts + 1
            /\ UNCHANGED inflight
       ELSE /\ inflight' = inflight \cup {[id |-> nextId + 1, kind |-> reportType]}
            /\ UNCHANGED alerts
    /\ UNCHANGED <<reportType, startDate, endDate, users, announcements, token,
                   view, saved, downloads, origin, lastOk>>

\* What the continuation after `await axios.get` stores for request r.
StoredUsers(r, data) == IF r.kind = "users" THEN data ELSE users
StoredAnnouncements(r, data) == IF r.kind = "announcements" THEN data ELSE announcements

\* A request resolves: setUsers / setAnnouncements with the body, re-render.
FetchResolve(r, data) ==
    /\ ~effectPending
    /\ r \in inflight
    /\ data \in (IF r.kind = "users" THEN UserResponses ELSE AnnouncementResponses)
    /\ inflight' = inflight \ {r}
    /\ users' = StoredUsers(r, data)
    /\ announcements' = StoredAnnouncements(r, data)
    /\ view' = renderReport(reportType, startDate, endDate, users', announcements')
    /\ origin' = [origin EXCEPT ![r.kind] = r.id]
    /\ lastOk' = [lastOk EXCEPT ![r.kind] = IF r.id > @ THEN r.id ELSE @]
    /\ UNCHANGED <<reportType, startDate, endDate, token, effectPending, nextId,
                   alerts, saved, downloads>>

\* Notices raised by the catch block.
CatchAlerts == 1

\* A catch block that also empties the user list.
CatchUsersCleared == <<>>

\* Record sets after the catch block ran.
CatchUsers == users
CatchAnnouncements == announcements

\* A request throws: the catch block logs and alerts.
FetchReject(r) ==
    /\ ~effectPending
    /\ r \in inflight
    /\ inflight' = inflight \ {r}
    /\ alerts' = alerts + CatchAlerts
    /\ users' = CatchUsers
    /\ announcements' = CatchAnnouncements
    /\ UNCHANGED <<reportType, startDate, endDate, token, effectPending, nextId,
                   view, saved, downloads, origin, lastOk>>

\* onChange of the start picker.
SetStartDate(d) ==
    /\ ~effectPending
    /\ PickersVisible
    /\ d # startDate
    /\ startDate' = d
    /\ view' = renderReport(reportType, d, endDate, users, announcements)
    /\ UNCHANGED <<reportType, endDate, users, announcements, token, effectPending,
                   inflight, nextId, alerts, saved, downloads, origin, lastOk>>

\* onChange of the end picker.
SetEndDate(d) ==
    /\ ~effectPending
    /\ PickersVisible
    /\ d # endDate
    /\ EndSelectable(d)
    /\ endDate' = d
    /\ view' = renderReport(reportType, startDate, d, users, announcements)
    /\ UNCHANGED <<reportType, startDate, users, announcements, token, effectPending,
                   inflight, nextId, alerts, saved, downloads, origin, lastOk>>

\* onClick of the Download PDF button.
DownloadPDF ==
    /\ ~effectPending
    /\ DownloadVisible
    /\ downloads < MaxDocs
    /\ saved' = downloadPDF(reportType, startDate, endDate, users, announcements)
    /\ downloads' = downloads + 1
    /\ UNCHANGED <<reportType, startDate, endDate, users, announcements, token,
                   effectPending, inflight, nextId, alerts, view, origin, lastOk>>

\* The token in localStorage is written and removed outside this page
\* (log-in, log-out).
StorageChange ==
    /\ ~effectPending
    /\ token' = ~token
    /\ UNCHANGED <<reportType, startDate, endDate, users, announcements,
                   effectPending, inflight, nextId, alerts, view, saved, downloads, origin,
                   lastOk>>

Next ==
    \/ \E k \in Kinds : SelectReportType(k)
    \/ FetchData
    \/ \E r \in inflight : \E data \in UserResponses \cup AnnouncementResponses :
          FetchResolve(r, data)
    \/ \E r \in inflight : FetchReject(r)
    \/ \E d \in PickerDates \cup {Null} : SetStartDate(d)
    \/ \E d \in PickerDates \cup {Null} : SetEndDate(d)
    \/ DownloadPDF
    \/ StorageChange

Spec == Init /\ [][Next]_vars

----------------------------------------------------------------------------
(* The data shaping on its own: one render of a page that holds an          *)
(* arbitrary fetched record set and an arbitrary window.                    *)

InitReport ==
    /\ reportType \in Kinds
    /\ startDate \in Dates \cup {Null}
    /\ endDate \in Dates \cup {Null}
    /\ users \in (IF reportType = "users"
                  THEN SeqsUpTo(UserRecords, MaxLen) ELSE {<<>>})
    /\ announcements \in (IF reportType = "announcements"
                          THEN SeqsUpTo(AnnouncementRecords, MaxLen) ELSE {<<>>})
    /\ token = TRUE
    /\ effectPending = FALSE
    /\ inflight = {}
    /\ nextId = 0
    /\ alerts = 0
    /\ view = NoView
    /\ saved = NoDoc
    /\ downloads = 0
    /\ origin = [k \in Kinds |-> 0]
    /\ lastOk = [k \in Kinds |-> 0]

\* The render that follows the state being set.
Render ==
    /\ view = NoView
    /\ view' = renderReport(reportType, startDate, endDate, users, announcements)
    /\ UNCHANGED <<reportType, startDate, endDate, users, announcements, token,
                   effectPending, inflight, nextId, alerts, saved, downloads, origin, lastOk>>

NextReport == Render

SpecReport == InitReport /\ [][NextReport]_vars

----------------------------------------------------------------------------
(* Properties of the data shaping, checked under SpecReport *)

Rendered == view # NoView

\* The record set the rendered report was computed from.
SourceData == IF reportType = "users" THEN users ELSE announcements

TimestampOf(rec) == IF reportType = "users" THEN rec.created_at ELSE rec.sent_at

\* The timestamp lies in the closed interval [startDate, endDate].
WithinBoth(ts) ==
    /\ ts # Malformed
    /\ ts[1] >= startDate[1]
    /\ ts[1] <= endDate[1]

\* Each bound applied on its own, an unset bound letting everything pass.
WithinEach(ts) ==
    /\ startDate = Null \/ (ts # Malformed /\ ts[1] >= startDate[1])
    /\ endDate = Null \/ (ts # Malformed /\ ts[1] <= endDate[1])

\* `out` is the sub-sequence of `data` at the indices satisfying Keep, in
\* the original order.
IsFiltered(out, data, Keep(_)) ==
    LET kept(i) == Cardinality({j \in 1..i : Keep(j)})
    IN  /\ Len(out) = kept(Len(data))
        /\ \A i \in DOMAIN data : Keep(i) => out[kept(i)] = data[i]

\* C1 as stated: a record is kept iff (start unset or timestamp >= start)
\* and (end unset or timestamp <= end), each bound on its own; the output
\* is a sub-sequence of the input in the original order.
C1_EachBoundApplied ==
    Rendered =>
        IsFiltered(view.tableData, SourceData,
                   LAMBDA i : WithinEach(TimestampOf(SourceData[i])))

\* C1 amended: when either bound is unset every record is kept; when both
\* are set a record is kept iff start <= timestamp <= end, inclusive; the
\* output is a sub-sequence of the input in the original order.
C1_WindowAppliedWhenBothSet ==
    Rendered =>
        IsFiltered(view.tableData, SourceData,
                   LAMBDA i : \/ startDate = Null
                              \/ endDate = Null
                              \/ WithinBoth(TimestampOf(SourceData[i])))

\* C1 witness: with only the start set, a record dated before the start
\* was kept.
C1_Witness_HalfOpenKeepsAll ==
    /\ Rendered
    /\ startDate # Null
    /\ endDate = Null
    /\ \E i \in DOMAIN view.tableData :
          LET ts == TimestampOf(view.tableData[i])
          IN  ts # Malformed /\ ts[1] < startDate[1]

RECURSIVE SumSeq(_)
SumSeq(q) == IF q = <<>> THEN 0 ELSE Head(q) + SumSeq(Tail(q))

CountIn(q, Test(_)) == Cardinality({i \in DOMAIN q : Test(q[i])})

\* C4: the counts of the registration report add up to the number of
\* filtered records with role student or lecturer, and the counts of the
\* activity report add up to the number of filtered records.
C4_CountsAddUp ==
    /\ view.kind = "users" =>
          SumSeq(view.datasets[1]) + SumSeq(view.datasets[2])
            = CountIn(view.tableData, LAMBDA u : u.role \in {"student", "lecturer"})
    /\ view.kind = "announcements" =>
          SumSeq(view.datasets[1]) = Len(view.tableData)

\* C6: whatever the window, a user whose created_at does not parse is
\* listed in the table rows and contributes to no chart label or bucket.
C6_MalformedListedNotBucketed ==
    (view.kind = "users" /\ \E i \in DOMAIN users : users[i].created_at = Malformed) =>
        /\ CountIn(view.tableData, LAMBDA u : u.created_at = Malformed)
             = CountIn(users, LAMBDA u : u.created_at = Malformed)
        /\ \A i \in DOMAIN view.labels : view.labels[i] # MonthKey(InvalidDate)
        /\ SumSeq(view.datasets[1]) + SumSeq(view.datasets[2])
             = CountIn(view.tableData,
                       LAMBDA u : /\ u.role \in {"student", "lecturer"}
                                  /\ u.created_at # Malformed)

\* The distinct elements of q in the order of their first occurrence.
RECURSIVE FirstSeen(_)
FirstSeen(q) ==
    IF q = <<>> THEN <<>>
    ELSE LET init == FirstSeen(SubSeq(q, 1, Len(q) - 1))
             last == q[Len(q)]
         IN  IF \E i \in DOMAIN init : init[i] = last THEN init
             ELSE Append(init, last)

\* "Unknown" for an empty name, else the name.
DisplayName(a) == IF a.sender_name = <<>> THEN S_Unknown ELSE a.sender_name

\* C7: the labels of the activity report are the distinct sender names
\* ("Unknown" for an empty one) in first-seen order, and the value at each
\* position is the number of records of that name.
C7_LabelsInFirstSeenOrder ==
    view.kind = "announcements" =>
        LET rows == view.tableData
            names == [i \in DOMAIN rows |-> DisplayName(rows[i])]
        IN  /\ view.labels = FirstSeen(names)
            /\ Len(view.datasets[1]) = Len(view.labels)
            /\ \A i \in DOMAIN view.labels :
                  view.datasets[1][i]
                    = CountIn(rows, LAMBDA a : DisplayName(a) = view.labels[i])

\* Year and month number read back from a "year-month" label.
DashAt(label) == CHOOSE i \in DOMAIN label : label[i] = 45
LabelYear(label) == StrToNat(SubSeq(label, 1, DashAt(label) - 1))
LabelMonth(label) == StrToNat(SubSeq(label, DashAt(label) + 1, Len(label)))
IsMonthLabel(label) == label # MonthKey(InvalidDate)

\* C9: the labels of the registration report ascend by year, then by month
\* number, and both datasets are aligned with the labels.
C9_LabelsChronological ==
    view.kind = "users" =>
        /\ \A i, j \in DOMAIN view.labels :
              (i < j /\ IsMonthLabel(view.labels[i]) /\ IsMonthLabel(view.labels[j])) =>
                  \/ LabelYear(view.labels[i]) < LabelYear(view.labels[j])
                  \/ /\ LabelYear(view.labels[i]) = LabelYear(view.labels[j])
                     /\ LabelMonth(view.labels[i]) < LabelMonth(view.labels[j])
        /\ \A i \in DOMAIN view.labels :
              /\ view.datasets[1][i]
                   = CountIn(view.tableData,
                             LAMBDA u : /\ MonthKey(NewDate(u.created_at)) = view.labels[i]
                                        /\ u.role = "student")
              /\ view.datasets[2][i]
                   = CountIn(view.tableData,
                             LAMBDA u : /\ MonthKey(NewDate(u.created_at)) = view.labels[i]
                                        /\ u.role = "lecturer")

----------------------------------------------------------------------------
(* Properties of the page, checked under Spec *)

\* C2: a response delivered when the selected kind is no longer the kind
\* that was requested changes neither users nor announcements.
C2_StaleResponseDiscarded ==
    [][\A r \in inflight :
          (r \notin inflight' /\ r.kind # reportType) =>
              UNCHANGED <<users, announcements>>]_vars

\* A run of fetchData ends in failure: it finds no token, or its request
\* leaves the pending set without a response having been stored.
FetchFails ==
    \/ effectPending /\ ~effectPending' /\ ~token
    \/ inflight' # inflight /\ inflight' \subseteq inflight /\ origin' = origin

\* C3: a failed fetch raises exactly one notice and leaves the record
\* sets, the report kind and the date window as they were.
C3_FailureRaisesOneNotice ==
    [][FetchFails =>
          /\ alerts' = alerts + 1
          /\ UNCHANGED <<users, announcements, reportType, startDate, endDate>>]_vars

\* C3 witness: two failures have been notified, the token is missing, and the user
\* list fetched earlier is still stored.
C3_Witness_FailureKeepsData ==
    /\ alerts >= 2
    /\ users # <<>>
    /\ ~token
    /\ inflight = {}

\* C5: a document is saved only while a report kind is selected.
C5_SavedOnlyWithKind ==
    [][downloads' # downloads => reportType # "none"]_vars

\* C5 witness: a document with table rows has been saved.
C5_Witness_Saved ==
    /\ downloads > 0
    /\ saved # NoDoc
    /\ saved.body # <<>>

\* The selection's own fetch has not completed yet.
FetchPending ==
    \/ effectPending
    \/ \E r \in inflight : r.id = nextId /\ r.kind = reportType

\* C8: while the fetch of the current selection is pending, the render has
\* evaluated no aggregation.
C8_NoAggregationWhilePending ==
    FetchPending => view = NoView

\* C10: once nothing is in flight, each record set holds the response of
\* the latest-issued fetch of its kind that resolved.
C10_LatestResponseWins ==
    (inflight = {} /\ ~effectPending) =>
        \A k \in Kinds : lastOk[k] > 0 => origin[k] = lastOk[k]

====
